---- MODULE Spec2Model ----
(***************************************************************************)
(* Pairwise distances of a random point set, as computed by the two        *)
(* scripts of _site/sandbox:                                               *)
(*   distance.py  the naive nested loop filling the dense matrix D         *)
(*   faster.py    the bulk computation over np.triu_indices giving the     *)
(*                condensed sequence a, and scipy's pdist giving DD        *)
(*                                                                         *)
(* Conventions of the model                                                *)
(*  - a point is a function 0..dim-1 -> Int, the array r a function        *)
(*    0..N-1 -> point, the matrix D a function on (0..N-1) \X (0..N-1);    *)
(*  - a one-dimensional numpy array (uti[0], uti[1], a, DD) is a TLA+      *)
(*    sequence: numpy position k is TLA+ index k+1;                        *)
(*  - a float distance d is held in fixed point as floor(d * Scale);       *)
(*    nan is the value NaN;                                                *)
(*  - the two scripts are separate programs that share no variable; they   *)
(*    are run one after the other, distance.py first;                      *)
(*  - N = 1000, the literal 100 of np.triu_indices and L = 100 are scaled  *)
(*    down to N \in 0..MaxN, TriuN and L, keeping TriuN < MaxN.            *)
(***************************************************************************)
EXTENDS Integers, Sequences, FiniteSets, TLC

\* ---------------------------------------------------------------- bounds
\* largest number of particles N a run is started with (N = 1000 in the source)
MaxN == 4

\* fixed-point scale of a distance: d is held as floor(d * Scale)
Scale == 10

\* ------------------------------------------------------ program constants
\* L = 100: the simulation box dimension, scaled down
L == 2

\* dim = 2: number of coordinates of a point
dim == 2

\* the literal argument of np.triu_indices(100, k=1), scaled down
TriuN == 3

\* the diagonal offset k=1 of np.triu_indices(100, k=1)
TriuK == 1

\* the value np.sqrt gives for a negative argument
NaN == -1

\* the values (np.random.random(...)-0.5)*L takes, on the integer grid:
\* the half-open interval from -L/2 to L/2
Coords == (0 - L \div 2)..(L \div 2 - 1)

Points == [0..(dim-1) -> Coords]

PointSets(n) == [0..(n-1) -> Points]

\* ------------------------------------------------------- array arithmetic
\* u - v on two one-dimensional arrays of the same shape
VSub(u, v) == [k \in DOMAIN u |-> u[k] - v[k]]

\* u * v, elementwise
VMul(u, v) == [k \in DOMAIN u |-> u[k] * v[k]]

\* np.square(v), elementwise
NpSquare(v) == [k \in DOMAIN v |-> v[k] * v[k]]

\* Python's builtin sum(v): 0 + v[0] + v[1] + ... , left to right
RECURSIVE SumUpTo(_, _)
SumUpTo(v, n) == IF n = 0 THEN 0 ELSE SumUpTo(v, n - 1) + v[n - 1]

PySum(v) == SumUpTo(v, Cardinality(DOMAIN v))

\* np.sum(m, axis=1): one sum per row; a row is reduced from its first
\* element on
RECURSIVE RowSumFrom(_, _, _)
RowSumFrom(v, k, n) == IF k = n THEN 0 ELSE v[k] + RowSumFrom(v, k + 1, n)

NpSumAxis1(m) == [k \in 1..Len(m) |-> RowSumFrom(m[k], 0, Cardinality(DOMAIN m[k]))]

\* the integer square root of n > 0 by Newton's iteration from the guess x
RECURSIVE SqrtIter(_, _)
SqrtIter(n, x) ==
    LET y == (x + n \div x) \div 2
    IN  IF y >= x THEN x ELSE SqrtIter(n, y)

\* np.sqrt(x) in fixed point: floor(sqrt(x) * Scale); nan for x < 0
NpSqrt(x) ==
    IF x < 0 THEN NaN
    ELSE IF x = 0 THEN 0
    ELSE SqrtIter(Scale * Scale * x, Scale * Scale * x)

\* ------------------------------------------------------------ distance.py
\* the body of the loop for one pair: dr = r[j]-r[i]; np.sqrt(sum(dr*dr))
NaivePair_nosquare(r, i, j) == NpSqrt(PySum(VSub(r[j], r[i])))

NaivePair(r, i, j) == NpSqrt(PySum(VMul(VSub(r[j], r[i]), VSub(r[j], r[i]))))

\* first value of range(i+1, N)
InnerStart_diag(i) == i

InnerStart(i) == i + 1

\* np.zeros(shape=(N,N))
Zeros(n) == [p \in (0..(n-1)) \X (0..(n-1)) |-> 0]

\* -------------------------------------------------------------- faster.py
\* np.tri(n, m, k): the mask with ones at and below the k-th diagonal
Tri(n, m, k) == [p \in (0..(n-1)) \X (0..(m-1)) |-> p[2] <= p[1] + k]

\* the positions of the mask's true entries, scanned in row-major order
RECURSIVE Nonzero(_, _, _)
Nonzero(mask, n, p) ==
    IF p >= n * n THEN <<>>
    ELSE (IF mask[p \div n, p % n] THEN << <<p \div n, p % n>> >> ELSE <<>>)
         \o Nonzero(mask, n, p + 1)

\* np.triu_indices(n, k): ~tri(n, n, k-1) selects j >= i + k; the result is
\* the pair (row indices, column indices)
TriuIndices(n, k) ==
    LET mask == [p \in DOMAIN Tri(n, n, k - 1) |-> ~Tri(n, n, k - 1)[p]]
        sel  == Nonzero(mask, n, 0)
    IN  << [q \in 1..Len(sel) |-> sel[q][1]], [q \in 1..Len(sel) |-> sel[q][2]] >>

\* uti = np.triu_indices(100, k=1)
BulkUti_diag == TriuIndices(TriuN, 0)

BulkUti == TriuIndices(TriuN, TriuK)

\* r[idx] with an index array is defined when every index is a row of r
IndexOk(r, idx) == \A q \in 1..Len(idx) : idx[q] \in DOMAIN r

\* r[idx]: the rows of r named by idx, in idx's order
Take(r, idx) == [q \in 1..Len(idx) |-> r[idx[q]]]

\* np.square(r[uti[0]]-r[uti[1]])
BulkSquares(r, u) ==
    [q \in 1..Len(u[1]) |-> NpSquare(VSub(Take(r, u[1])[q], Take(r, u[2])[q]))]

\* np.sqrt(np.sum(a, axis=1))
BulkSqrtSum(sq) == [q \in 1..Len(sq) |-> NpSqrt(NpSumAxis1(sq)[q])]

\* scipy's pdist(X), euclidean: the rows i < j in the order of its double
\* loop, one entry sqrt(sum((u-v)^2)) per pair
RECURSIVE PdistRow(_, _, _, _)
PdistRow(X, n, i, j) ==
    IF j >= n THEN <<>>
    ELSE <<NpSqrt(PySum(NpSquare(VSub(X[i], X[j]))))>> \o PdistRow(X, n, i, j + 1)

RECURSIVE PdistFrom(_, _, _)
PdistFrom(X, n, i) ==
    IF i >= n THEN <<>> ELSE PdistRow(X, n, i, i + 1) \o PdistFrom(X, n, i + 1)

Pdist(X) == PdistFrom(X, Cardinality(DOMAIN X), 0)

\* ------------------------------------------------------------------ state
VARIABLES
    N,          \* number of particles both scripts are configured with
    sample,     \* the positions the random sampler hands out
    timeBound,  \* whether the name `time` is bound where faster.py runs
    pcN,        \* distance.py: position in the script
    rN,         \* distance.py: r
    D,          \* distance.py: D
    i,          \* distance.py: i (-1 while the name is not bound)
    j,          \* distance.py: j (-1 while the name is not bound)
    iNext,      \* distance.py: the value range(N) yields next
    jNext,      \* distance.py: the value range(i+1,N) yields next
    stores,     \* distance.py: how often each entry of D was assigned
    visited,    \* distance.py: the pairs the loop body ran for, in order
    pcB,        \* faster.py: position in the script
    excB,       \* faster.py: the exception that ended the script
    rB,         \* faster.py: r
    uti,        \* faster.py: uti
    a,          \* faster.py: a
    DD          \* faster.py: DD

vars == <<N, sample, timeBound, pcN, rN, D, i, j, iNext, jNext, stores, visited,
          pcB, excB, rB, uti, a, DD>>

envVars == <<N, sample, timeBound>>

naiveVars == <<pcN, rN, D, i, j, iNext, jNext, stores, visited>>

bulkVars == <<pcB, excB, rB, uti, a, DD>>

\* the value of a name that is not bound yet
Unbound == <<>>

Init ==
    /\ N \in 0..MaxN
    /\ sample \in PointSets(N)
    /\ timeBound \in BOOLEAN
    /\ pcN = "gen"
    /\ rN = Unbound
    /\ D = Unbound
    /\ i = -1
    /\ j = -1
    /\ iNext = 0
    /\ jNext = 0
    /\ stores = [p \in (0..(N-1)) \X (0..(N-1)) |-> 0]
    /\ visited = <<>>
    /\ pcB = "gen"
    /\ excB = "none"
    /\ rB = Unbound
    /\ uti = Unbound
    /\ a = Unbound
    /\ DD = Unbound

\* ---------------------------------------------------- distance.py, steps
\* line 18: r = (np.random.random(size=(N,dim))-0.5)*L
NaiveGenerate ==
    /\ pcN = "gen"
    /\ rN' = sample
    /\ pcN' = "alloc"
    /\ UNCHANGED <<D, i, j, iNext, jNext, stores, visited>>
    /\ UNCHANGED envVars /\ UNCHANGED bulkVars

\* lines 20-22: t1 = time.time(); D = np.zeros(shape=(N,N))
NaiveAlloc ==
    /\ pcN = "alloc"
    /\ D' = Zeros(N)
    /\ pcN' = "outer"
    /\ UNCHANGED <<rN, i, j, iNext, jNext, stores, visited>>
    /\ UNCHANGED envVars /\ UNCHANGED bulkVars

\* line 25: for i in range(N): the next i, or the end of the loop
NaiveOuter ==
    /\ pcN = "outer"
    /\ IF iNext < N
         THEN /\ i' = iNext
              /\ iNext' = iNext + 1
              /\ jNext' = InnerStart(iNext)
              /\ pcN' = "inner"
         ELSE /\ pcN' = "print"
              /\ UNCHANGED <<i, iNext, jNext>>
    /\ UNCHANGED <<rN, D, j, stores, visited>>
    /\ UNCHANGED envVars /\ UNCHANGED bulkVars

\* line 26: for j in range(i+1,N): the next j, or back to the outer loop
NaiveInner ==
    /\ pcN = "inner"
    /\ IF jNext < N
         THEN /\ j' = jNext
              /\ jNext' = jNext + 1
              /\ pcN' = "body"
         ELSE /\ pcN' = "outer"
              /\ UNCHANGED <<j, jNext>>
    /\ UNCHANGED <<rN, D, i, iNext, stores, visited>>
    /\ UNCHANGED envVars /\ UNCHANGED bulkVars

\* a loop body that subtracts in place: dr = r[j]; dr -= r[i]
NaiveBody_inplace ==
    /\ pcN = "body"
    /\ D' = [D EXCEPT ![i, j] = NaivePair(rN, i, j)]
    /\ rN' = [rN EXCEPT ![j] = VSub(rN[j], rN[i])]
    /\ stores' = [stores EXCEPT ![i, j] = @ + 1]
    /\ visited' = Append(visited, <<i, j>>)
    /\ pcN' = "inner"
    /\ UNCHANGED <<i, j, iNext, jNext>>
    /\ UNCHANGED envVars /\ UNCHANGED bulkVars

\* lines 27-28: dr = r[j]-r[i]; D[i,j] = np.sqrt(sum(dr*dr))
NaiveBody ==
    /\ pcN = "body"
    /\ D' = [D EXCEPT ![i, j] = NaivePair(rN, i, j)]
    /\ stores' = [stores EXCEPT ![i, j] = @ + 1]
    /\ visited' = Append(visited, <<i, j>>)
    /\ pcN' = "inner"
    /\ UNCHANGED <<rN, i, j, iNext, jNext>>
    /\ UNCHANGED envVars /\ UNCHANGED bulkVars

\* line 30: print(time.time()-t1)
NaivePrint ==
    /\ pcN = "print"
    /\ pcN' = "done"
    /\ UNCHANGED <<rN, D, i, j, iNext, jNext, stores, visited>>
    /\ UNCHANGED envVars /\ UNCHANGED bulkVars

\* ------------------------------------------------------ faster.py, steps
\* line 17: r = (np.random.random(size=(N,dim))-0.5)*L
BulkGenerate ==
    /\ pcN = "done"
    /\ pcB = "gen"
    /\ rB' = sample
    /\ pcB' = "timer"
    /\ UNCHANGED <<excB, uti, a, DD>>
    /\ UNCHANGED envVars /\ UNCHANGED naiveVars

\* line 20: t1 = time.time(); the script has no `import time`, the name
\* resolves only where the interpreter's namespace already binds it
BulkTimer ==
    /\ pcB = "timer"
    /\ IF timeBound
         THEN /\ pcB' = "uti"
              /\ UNCHANGED excB
         ELSE /\ pcB' = "aborted"
              /\ excB' = "NameError"
    /\ UNCHANGED <<rB, uti, a, DD>>
    /\ UNCHANGED envVars /\ UNCHANGED naiveVars

\* line 21: uti = np.triu_indices(100, k=1)
BulkTriu ==
    /\ pcB = "uti"
    /\ uti' = BulkUti
    /\ pcB' = "square"
    /\ UNCHANGED <<excB, rB, a, DD>>
    /\ UNCHANGED envVars /\ UNCHANGED naiveVars

\* line 22: a = np.square(r[uti[0]]-r[uti[1]]); an index that is no row of
\* r raises IndexError
BulkSquare ==
    /\ pcB = "square"
    /\ IF IndexOk(rB, uti[1]) /\ IndexOk(rB, uti[2])
         THEN /\ a' = BulkSquares(rB, uti)
              /\ pcB' = "sqrt"
              /\ UNCHANGED excB
         ELSE /\ pcB' = "aborted"
              /\ excB' = "IndexError"
              /\ UNCHANGED a
    /\ UNCHANGED <<rB, uti, DD>>
    /\ UNCHANGED envVars /\ UNCHANGED naiveVars

\* lines 23-25: a = np.sqrt(np.sum(a,axis=1)); print(time.time()-t1)
BulkSqrt ==
    /\ pcB = "sqrt"
    /\ a' = BulkSqrtSum(a)
    /\ pcB' = "pdist"
    /\ UNCHANGED <<excB, rB, uti, DD>>
    /\ UNCHANGED envVars /\ UNCHANGED naiveVars

\* lines 27-29: t1 = time.time(); DD = pdist(r); print(time.time()-t1)
BulkPdist ==
    /\ pcB = "pdist"
    /\ DD' = Pdist(rB)
    /\ pcB' = "print"
    /\ UNCHANGED <<excB, rB, uti, a>>
    /\ UNCHANGED envVars /\ UNCHANGED naiveVars

\* line 31: print(a,DD)
BulkPrint ==
    /\ pcB = "print"
    /\ pcB' = "done"
    /\ UNCHANGED <<excB, rB, uti, a, DD>>
    /\ UNCHANGED envVars /\ UNCHANGED naiveVars

Next ==
    \/ NaiveGenerate
    \/ NaiveAlloc
    \/ NaiveOuter
    \/ NaiveInner
    \/ NaiveBody
    \/ NaivePrint
    \/ BulkGenerate
    \/ BulkTimer
    \/ BulkTriu
    \/ BulkSquare
    \/ BulkSqrt
    \/ BulkPdist
    \/ BulkPrint

Spec == Init /\ [][Next]_vars

\* a started script keeps executing: the interpreter takes the next step
\* whenever there is one
FairSpec == Spec /\ WF_vars(Next)

\* ------------------------------------------------- vocabulary of the claims
NaiveDone == pcN = "done"

BulkDone == pcB = "done"

\* D is bound from line 22 on
DBound == pcN \notin {"gen", "alloc"}

\* a holds the distances from line 23 on
ABound == pcB \in {"pdist", "print", "done"}

\* the unordered pairs of n points, as (i,j) with i < j
PairsOf(n) == {p \in (0..(n-1)) \X (0..(n-1)) : p[1] < p[2]}

\* p comes before q in the canonical order: i ascending, then j ascending
Before(p, q) == p[1] < q[1] \/ (p[1] = q[1] /\ p[2] < q[2])

\* the position (from 0) of pair p among the pairs of n points
Pos(n, p) == Cardinality({q \in PairsOf(n) : Before(q, p)})

\* the pairs of n points as the sequence in canonical order
Canonical(n) ==
    [k \in 1..Cardinality(PairsOf(n)) |-> CHOOSE p \in PairsOf(n) : Pos(n, p) = k - 1]

\* the pairs the index set uti names, in its order
UtiPairs == [q \in 1..Len(uti[1]) |-> <<uti[1][q], uti[2][q]>>]

\* the squared Euclidean distance of two points
SqDist(p, q) ==
    LET f[k \in 0..dim] == IF k = 0 THEN 0
                           ELSE f[k - 1] + (p[k - 1] - q[k - 1]) * (p[k - 1] - q[k - 1])
    IN  f[dim]

\* d is the Euclidean distance of p and q, in fixed point
IsEuclid(d, p, q) ==
    /\ d >= 0
    /\ d * d <= Scale * Scale * SqDist(p, q)
    /\ Scale * Scale * SqDist(p, q) < (d + 1) * (d + 1)

\* ------------------------------------------------------------------ claims
\* C1: for every pair i < j of the N points, the entry D[i,j] of the naive
\* loop equals the entry of a at the position of pair (i,j), and equals the
\* entry of DD there.
C1_NaiveEqualsBulk ==
    (NaiveDone /\ BulkDone) =>
        \A p \in PairsOf(N) :
            /\ Pos(N, p) + 1 \in DOMAIN a
            /\ Pos(N, p) + 1 \in DOMAIN DD
            /\ D[p] = a[Pos(N, p) + 1]
            /\ D[p] = DD[Pos(N, p) + 1]

\* C2: for N >= 2 the number of distances computed is N*(N-1)/2: the naive
\* loop stores that many entries of D, and a has that many entries, as many
\* as DD.
C2_NumberOfDistances ==
    N >= 2 =>
        /\ NaiveDone => Len(visited) = (N * (N - 1)) \div 2
        /\ ABound => Len(a) = (N * (N - 1)) \div 2
        /\ BulkDone => Len(a) = Len(DD)

\* C3: the k-th entry of a belongs to the k-th pair in canonical order, every
\* pair i < j of the point set occurs exactly once, and this is the order in
\* which the naive loop visits the pairs.
C3_CanonicalOrder ==
    /\ ABound => /\ UtiPairs = Canonical(N)
                 /\ \A q \in 1..Len(a) :
                        IsEuclid(a[q], rB[UtiPairs[q][1]], rB[UtiPairs[q][2]])
    /\ (ABound /\ NaiveDone) => UtiPairs = visited

\* C4: at every step of the naive loop every entry D[i,j] with i >= j is
\* zero and was never written; no entry is written twice; on completion every
\* entry with i < j was written once and holds the Euclidean distance of
\* point i and point j.
C4_UpperTriangle ==
    DBound =>
        /\ \A p \in DOMAIN D : p[1] >= p[2] => (D[p] = 0 /\ stores[p] = 0)
        /\ \A p \in DOMAIN D : stores[p] <= 1
        /\ NaiveDone =>
              \A p \in PairsOf(N) :
                  stores[p] = 1 /\ IsEuclid(D[p], rN[p[1]], rN[p[2]])

C4_Witness ==
    /\ NaiveDone
    /\ N >= 3
    /\ \E p \in PairsOf(N) : D[p] > 0 /\ stores[p] = 1

\* C5: a point set with two points of differing dimensionality makes the
\* computation fail with DimensionMismatchError before any distance is
\* computed.  Every r either script builds is an N x dim array, so no state
\* of the scripts has such a point set; the predicate names the case.
C5_RaggedPointSet ==
    \E p, q \in DOMAIN sample : DOMAIN sample[p] # DOMAIN sample[q]

\* C6: every computed distance is >= 0, and no distance of a point to itself
\* is computed or stored: the naive loop body never runs with i = j and the
\* index set uti has no pair with i = j.
C6_NonNegativeNoDiagonal ==
    /\ pcN = "body" => i # j
    /\ \A q \in 1..Len(visited) : visited[q][1] # visited[q][2]
    /\ DBound => \A p \in DOMAIN D : D[p] >= 0
    /\ uti # Unbound => \A q \in 1..Len(uti[1]) : uti[1][q] # uti[2][q]
    /\ ABound => \A q \in 1..Len(a) : a[q] >= 0
    /\ BulkDone => \A q \in 1..Len(DD) : DD[q] >= 0

C6_Witness ==
    /\ NaiveDone
    /\ BulkDone
    /\ visited # <<>>
    /\ \E q \in 1..Len(a) : a[q] > 0

\* the distance the bulk operations give the pair (i,j)
BulkPair(r, m, n) == BulkSqrtSum(BulkSquares(r, << <<m>>, <<n>> >>))[1]

\* C7: the result is a function of the point set alone: every stored value
\* is the value of its pair in the sampled point set, whenever it was
\* stored, and it is the value the pair (j,i) would give; on completion the
\* stored entries are those of the pairs i < j.
C7_FunctionOfPointSet ==
    /\ DBound =>
          \A p \in DOMAIN D :
              stores[p] > 0 => /\ D[p] = NaivePair(sample, p[1], p[2])
                               /\ D[p] = NaivePair(sample, p[2], p[1])
    /\ NaiveDone =>
          \A p \in DOMAIN D : (stores[p] > 0) = (p \in PairsOf(N))
    /\ ABound =>
          \A q \in 1..Len(a) :
              /\ a[q] = BulkPair(sample, uti[1][q], uti[2][q])
              /\ a[q] = BulkPair(sample, uti[2][q], uti[1][q])

C7_Witness ==
    /\ NaiveDone
    /\ BulkDone
    /\ \E p \in PairsOf(N) : D[p] > 0
    /\ Len(a) > 0

\* C8: neither script mutates its point set: from its generation on, r holds
\* the coordinates it was generated with.
C8_InputNotMutated ==
    /\ pcN # "gen" => rN = sample
    /\ pcB # "gen" => rB = sample

C8_Witness ==
    /\ NaiveDone
    /\ BulkDone
    /\ Len(visited) >= 3
    /\ Len(DD) >= 3

\* C9: with N = 0 or N = 1 the computation completes without error and the
\* result is empty: the naive loop body runs zero times and a has length
\* zero.  (Stated for the runs in which `time` is bound.)
C9_DegenerateEmpty ==
    (N <= 1 /\ timeBound) =>
        /\ NaiveDone => (visited = <<>> /\ \A p \in DOMAIN D : stores[p] = 0)
        /\ pcB # "aborted"
        /\ BulkDone => Len(a) = 0

\* C10: each script, started on a well-formed point set, runs to completion:
\* the naive loop reaches its timing print and the bulk script its final
\* print, and no step aborts.  (Stated for the N the index set fits.)
C10_RunsToCompletion ==
    (N >= TriuN) => <>(pcN = "done" /\ pcB = "done")

====
